---------------------------- MODULE Spec2Model ----------------------------
(***************************************************************************)
(* church-manager: the resync cycle (fetch -> extract -> publish), the     *)
(* append path (add entry, edit, placement) and the recent-activity        *)
(* buffer, as implemented by the three App components of the repository:   *)
(* src/App.tsx (with src/services), src/index.tsx and src/unnamed/part_001.*)
(*                                                                         *)
(* Text is modelled as a sequence of segments [label, text]: a segment     *)
(* labelled "placed" is a placement marker with its group name, a segment  *)
(* labelled "text" is free text, and a segment labelled "family" or "pref" *)
(* is a labelled field of a member's details string.  Rounds are numbers   *)
(* (the code keeps them as decimal strings).                               *)
(***************************************************************************)
EXTENDS Integers, Sequences, FiniteSets, Bags, TLC

VARIABLES
    variant,          \* which App component runs
    sheet,            \* the external record log (rows of the Google sheet)
    result,           \* useState<AnalysisResult | null>
    syncStatus,       \* connectionStatus (App.tsx, part_001) / syncStatus (index.tsx)
    isAnalyzing,      \* useState(false), App.tsx and index.tsx
    isSyncing,        \* useState(false), index.tsx and part_001
    cycles,           \* bag of resync cycles in flight (pending handleSyncFromSheet / doSync calls);
                      \* since records how many rows the log had when the cycle was triggered
    appends,          \* bag of append calls in flight (pending handleAddEntry / handleSave calls)
    timers,           \* bag of pending setTimeout(resync) timers
    isSaving,         \* useState(false)
    recentLogs,       \* useState<FormEntry[]>([]), App.tsx and index.tsx
    currentEntry,     \* the entry form (form in part_001)
    placingMember,    \* the member of the open placement dialog, or NULL (placing in part_001)
    smallGroupName,   \* the group name typed into the placement dialog (groupName in part_001)
    editingMember,    \* the member of the open edit dialog, or NULL (editing in part_001)
    scriptUrl,        \* the append-endpoint location
    sheetUrl,         \* the record-source location
    appendLimit,      \* how many append requests the session is followed for
    submitted,        \* how many append requests the session has issued
    added,            \* every record pushed to recentLogs so far, newest first
    alert,            \* what the last handler step told the operator via alert(), or "none"
    viewLog           \* the raw log whose extractor answer is the published view

vars == <<variant, sheet, result, syncStatus, isAnalyzing, isSyncing, cycles,
          appends, timers, isSaving, recentLogs, currentEntry, placingMember,
          smallGroupName, editingMember, scriptUrl, sheetUrl, appendLimit,
          submitted, added,
          alert,
          viewLog>>

syncVars == <<result, viewLog, syncStatus, isAnalyzing, isSyncing, cycles>>
formVars == <<currentEntry, placingMember, smallGroupName, editingMember>>
\* what stays as it is for the whole session
settings == <<scriptUrl, sheetUrl, appendLimit>>

----------------------------------------------------------------------------
(* Bounds of the model *)

\* resync cycles in flight at once
MaxCycles == 2
\* append requests the session issues
MaxAppends == 1
\* append requests the session issues in SpecDouble
MaxDoubleAppends == 2
\* records pushed to the recent-activity buffer in SpecLogs
MaxHistory == 11
\* milliseconds one Tick advances every running timer
TickMs == 15000

(* Program constants *)

AppendTimeoutMs == 15000
ResyncDelayMs == 2500
ResyncDelayMsPart001 == 2000
RequiredRounds == 4
GraduationRounds == 8
LastRound == 8

APP == "App.tsx"
INDEX == "index.tsx"
PART001 == "part_001"
Variants == {APP, INDEX, PART001}

\* null where a record (a view, a member) is expected
NULL == [null |-> TRUE]
\* null where a string is expected (a failed regex match)
NO_MATCH == "<null>"
\* the value of a field the record type does not have (FormEntry of App.tsx has no author)
ABSENT == "<absent>"

----------------------------------------------------------------------------
(* Text helpers *)

\* String.prototype.trim on the strings the model uses
trim(s) == IF s \in {"", " "} THEN "" ELSE s

Plain(t) == IF t = "" THEN <<>> ELSE <<[label |-> "text", text |-> t]>>
Tag(g) == <<[label |-> "placed", text |-> g]>>

RECURSIVE firstLabelled(_, _, _)
firstLabelled(segs, label, i) ==
    IF i > Len(segs) THEN NO_MATCH
    ELSE IF segs[i].label = label THEN segs[i].text
    ELSE firstLabelled(segs, label, i + 1)

\* details.match(/\[<placed>:\s*([^\]]+)\]/): the first marker's group, or null
getPlacedGroup(details) == firstLabelled(details, "placed", 1)

\* part_001: member.details.includes('[<placed>')
detailsIncludesPlaced(details) == \E i \in DOMAIN details : details[i].label = "placed"

\* the first "<label>: value" field of details, trimmed, or ''; App.tsx maps the
\* word for "none" to ''
parseDetail(v, details, label) ==
    LET m == firstLabelled(details, label, 1)
        r == IF m = NO_MATCH THEN "" ELSE trim(m)
    IN IF v = APP /\ r = "NONE_WORD" THEN "" ELSE r

----------------------------------------------------------------------------
(* The record log and the extractor *)

KIM == "Kim"
AUTHOR == "Lee"
GROUP == "G1"
HOME == "Jeongja (alpha)"
NOTE == "n1"
CLASS == "class 2A"
PLACEMENT_CLASS == "placement"
EDIT_CLASS == "edit"
DEFAULT_PLACEMENT_AUTHOR == "system"
DEFAULT_EDIT_AUTHOR == "secretary"

\* a row of the sheet as an earlier session wrote it
baseRow(r) ==
    [author |-> AUTHOR, name |-> KIM, spouseName |-> "", date |-> "d0",
     classType |-> CLASS, round |-> r, residence |-> HOME, preference |-> "",
     notes |-> Plain(NOTE)]

\* the row an earlier placement of Kim left in the sheet
placedRow ==
    [baseRow(0) EXCEPT !.classType = PLACEMENT_CLASS, !.notes = Tag(GROUP) \o Plain(NOTE)]

\* the logs the session may find: Kim one round short of the placement threshold, at
\* it, or at it and already placed
BaseSheets == { [i \in 1..(RequiredRounds - 1) |-> baseRow(i)],
                [i \in 1..RequiredRounds |-> baseRow(i)],
                [i \in 1..RequiredRounds |-> baseRow(i)] \o <<placedRow>> }

maxOf(S) == CHOOSE i \in S : \A j \in S : j <= i

\* the categorisation rules of the extractor's prompt, in priority order
categorize(count, hasTag) ==
    IF count >= RequiredRounds /\ ~hasTag THEN "placementTargets"
    ELSE IF count >= RequiredRounds /\ hasTag THEN "placedMembers"
    ELSE IF count >= GraduationRounds THEN "completedMembers"
    ELSE "ongoingMembers"

statusOf(list) ==
    IF list \in {"placementTargets", "placedMembers"} THEN "TARGET"
    ELSE IF list = "completedMembers" THEN "COMPLETED"
    ELSE "ONGOING"

\* how the extractor writes a person's details text, which the schema leaves a free
\* string and no prompt describes: with the marker of the last tagged row only, or
\* with the markers of all tagged rows as the log lists them
LATEST_MARKER == "latest marker"
LOG_ORDER == "markers in log order"
DetailStyles == {LATEST_MARKER, LOG_ORDER}

\* the placement markers of the rows, one segment per tagged row, in row order
RECURSIVE markersOf(_, _)
markersOf(rows, i) ==
    IF i > Len(rows) THEN <<>>
    ELSE (IF getPlacedGroup(rows[i].notes) = NO_MATCH THEN <<>>
          ELSE Tag(getPlacedGroup(rows[i].notes))) \o markersOf(rows, i + 1)

\* the prompt's couple rule: A and B are a couple when a row of one names the other
\* as spouse
partnersOf(csv, n) ==
    ({trim(csv[i].spouseName) : i \in {j \in DOMAIN csv : trim(csv[j].name) = n}}
     \cup {trim(csv[i].name) : i \in {j \in DOMAIN csv : trim(csv[j].spouseName) = n}})
    \ {""}

\* one person's aggregate over the rows of the raw log that carry the person's name;
\* with the couple rule (linked), region and notes are shared with the partner's rows
memberWith(csv, n, style, linked) ==
    LET rows == SelectSeq(csv, LAMBDA r : trim(r.name) = n)
        shared == IF linked
                  THEN SelectSeq(csv, LAMBDA r : trim(r.name) \in {n} \cup partnersOf(csv, n))
                  ELSE rows
        rounds == {rows[i].round : i \in DOMAIN rows} \cap (1..LastRound)
        tagged == {i \in DOMAIN rows : getPlacedGroup(rows[i].notes) # NO_MATCH}
        noted == {i \in DOMAIN shared : firstLabelled(shared[i].notes, "text", 1) # NO_MATCH}
        housed == {i \in DOMAIN shared : shared[i].residence # ""}
        wed == {i \in DOMAIN rows : trim(rows[i].spouseName) # ""}
        group == IF tagged = {} THEN NO_MATCH ELSE getPlacedGroup(rows[maxOf(tagged)].notes)
        note == IF noted = {} THEN ""
                ELSE firstLabelled(shared[maxOf(noted)].notes, "text", 1)
    IN [name |-> n,
        spouseName |-> IF wed = {} THEN "" ELSE trim(rows[maxOf(wed)].spouseName),
        attendanceCount |-> Cardinality(rounds),
        attendedRounds |-> rounds,
        region |-> IF housed = {} THEN "" ELSE shared[maxOf(housed)].residence,
        details |-> (IF group = NO_MATCH THEN <<>>
                     ELSE IF style = LATEST_MARKER THEN Tag(group)
                     ELSE markersOf(rows, 1))
                    \o (IF note = "" THEN <<>> ELSE <<[label |-> "family", text |-> note]>>),
        status |-> statusOf(categorize(Cardinality(rounds), group # NO_MATCH))]

memberOf(csv, n) == memberWith(csv, n, LATEST_MARKER, FALSE)

listOf(m) == categorize(m.attendanceCount, getPlacedGroup(m.details) # NO_MATCH)

\* the extractor's answer for a raw log: the four lists and the record count
analyzeSheetDataWith(csv, style, linked) ==
    LET people == {memberWith(csv, n, style, linked) :
                      n \in {trim(csv[i].name) : i \in DOMAIN csv} \ {""}}
    IN [placementTargets |-> {m \in people : listOf(m) = "placementTargets"},
        placedMembers |-> {m \in people : listOf(m) = "placedMembers"},
        ongoingMembers |-> {m \in people : listOf(m) = "ongoingMembers"},
        completedMembers |-> {m \in people : listOf(m) = "completedMembers"},
        totalAttendanceRecords |-> Len(csv)]

analyzeSheetData(csv) == analyzeSheetDataWith(csv, LATEST_MARKER, FALSE)

\* an answer of the response schema that follows none of the prompt's rules: Kim
\* with a count that is not the number of the rounds listed, among the graduates
UnruledAnswer ==
    LET log == [i \in 1..RequiredRounds |-> baseRow(i)]
        kim == [memberOf(log, KIM) EXCEPT !.attendanceCount = @ + 1,
                                          !.status = "COMPLETED"]
    IN [placementTargets |-> {}, placedMembers |-> {}, ongoingMembers |-> {},
        completedMembers |-> {kim}, totalAttendanceRecords |-> Len(log)]

\* 'CRITICAL RULE - COUPLE LINKING ... Share information between couples (Region,
\* Notes)' is part of the prompt App.tsx sends, not of the prompt of index.tsx
coupleLinking(v) == v = APP

\* answers that conform to the response schema whatever the log holds
SchemaAnswers == {analyzeSheetData(log) : log \in BaseSheets} \cup {UnruledAnswer}

\* what the prompt asks the extractor to answer for a raw log: App.tsx and index.tsx put the log
\* into the request; part_001 sends its instructions without the log (rawData is
\* never used), so its answer is any object of the response schema
promptAnswers(v, csv) ==
    IF v = PART001 THEN SchemaAnswers
    ELSE {analyzeSheetDataWith(csv, style, coupleLinking(v)) : style \in DetailStyles}

\* the value JSON.parse leaves for a number the response text does not hold
UNDEFINED_NUMBER == 0 - 1

\* a response text that is valid JSON but lacks the required record count
NonConformingAnswer ==
    [placementTargets |-> {}, placedMembers |-> {}, ongoingMembers |-> {},
     completedMembers |-> {}, totalAttendanceRecords |-> UNDEFINED_NUMBER]

\* the response schema of the request: the four lists and a numeric record count
conformsToSchema(data) ==
    /\ DOMAIN data = {"placementTargets", "placedMembers", "ongoingMembers",
                      "completedMembers", "totalAttendanceRecords"}
    /\ data.totalAttendanceRecords # UNDEFINED_NUMBER

\* JSON.parse(response.text.trim()) as AnalysisResult: whatever parses is returned,
\* the cast checks nothing at run time
extractorAnswers(v, csv) == promptAnswers(v, csv) \cup {NonConformingAnswer}

\* the logs a session starts from; part_001 never reads the content of the log, so
\* there one log stands for all
InitialSheets(v) ==
    IF v = PART001 THEN {[i \in 1..RequiredRounds |-> baseRow(i)]} ELSE BaseSheets

\* every member of a published view
allMembers(res) ==
    IF res = NULL THEN {}
    ELSE res.placementTargets \cup res.placedMembers \cup res.ongoingMembers
         \cup res.completedMembers

----------------------------------------------------------------------------
(* The resync cycle *)

hasAnalyzing == variant \in {APP, INDEX}
hasSyncing == variant \in {INDEX, PART001}

\* the constant sheetUrl of App.tsx and index.tsx (DEFAULT_SHEET_URL of part_001)
SHEET_URL == "https://docs.example/spreadsheets/d/SHEET_ID/edit"

\* the locations a session may run with: part_001 reads its location from
\* localStorage and its settings tab, App.tsx and index.tsx have it built in
SheetUrls(v) == IF v = PART001 THEN {"", "docs.example/spreadsheets", SHEET_URL}
                ELSE {SHEET_URL}

\* sheetUrl.match(/\/d\/([a-zA-Z0-9-_]+)/) finds an id
hasSheetId(u) == u = SHEET_URL

\* the synchronous head of handleSyncFromSheet / doSync: raise the flags, start the
\* fetch; fetchSheetData / fetchSheetCSV runs up to its first await, so a location
\* without an id has thrown before any request is made (requested is FALSE)
startCycle(silent) ==
    /\ isAnalyzing' = IF hasAnalyzing /\ ~silent THEN TRUE ELSE isAnalyzing
    /\ isSyncing' = IF hasSyncing THEN TRUE ELSE isSyncing
    /\ cycles' = cycles (+) SetToBag({[pc |-> "fetch", csv |-> <<>>, silent |-> silent,
                                        since |-> Len(sheet),
                                        requested |-> hasSheetId(sheetUrl)]})

\* a cycle that ends without its finally block
finishCycleNoFinally(c) ==
    /\ cycles' = cycles (-) SetToBag({c})
    /\ UNCHANGED <<isAnalyzing, isSyncing>>

\* the finally block of handleSyncFromSheet / doSync
finishCycle(c) ==
    /\ isAnalyzing' = IF hasAnalyzing THEN FALSE ELSE isAnalyzing
    /\ isSyncing' = IF hasSyncing THEN FALSE ELSE isSyncing
    /\ cycles' = cycles (-) SetToBag({c})

\* a catch block that blanks the view
resultAfterErrorBlank(prev) == NULL

\* what the catch block of handleSyncFromSheet / doSync leaves of the published view
resultAfterError(prev) == prev

\* a view updated list by list, keeping the placed list it had
publishedMerged(prev, data) ==
    IF prev = NULL THEN data ELSE [data EXCEPT !.placedMembers = prev.placedMembers]

\* setResult(data): the view after the extractor's answer is published
published(prev, data) == data

\* the refresh button of index.tsx, the settings 'apply' button of part_001
ManualSync ==
    /\ variant \in {INDEX, PART001}
    /\ BagCardinality(cycles) < MaxCycles
    /\ startCycle(FALSE)
    /\ alert' = IF variant = PART001 THEN "applied" ELSE "none"
    /\ UNCHANGED <<variant, sheet, result, viewLog, syncStatus, appends, timers, isSaving,
                   recentLogs, formVars, settings, submitted, added>>

\* response.text() of the export request, which carries a cache-busting parameter
responseText(log) == log

\* the body of a non-success response (a sign-in or error page)
ErrorPage == <<[baseRow(0) EXCEPT !.name = "<html>"]>>

\* the responses the export request can get while the log is as given
Responses(log) == {[ok |-> TRUE, text |-> responseText(log)],
                   [ok |-> FALSE, text |-> ErrorPage]}

\* a fetch that returns the text of any response
fetchSheetDataAnyStatus(url, response) == [thrown |-> FALSE, text |-> response.text]

\* fetchSheetData / fetchSheetCSV from the location check on: throw, or return the
\* text of the response
fetchSheetData(url, response) ==
    IF ~hasSheetId(url) \/ ~response.ok THEN [thrown |-> TRUE, text |-> <<>>]
    ELSE [thrown |-> FALSE, text |-> response.text]

\* fetchSheetData / fetchSheetCSV returns the text of a successful response
FetchOk(c) ==
    /\ c.pc = "fetch"
    /\ c.requested
    /\ \E response \in Responses(sheet) :
          /\ ~fetchSheetData(sheetUrl, response).thrown
          /\ cycles' = (cycles (-) SetToBag({c}))
                       (+) SetToBag({[c EXCEPT
                               !.pc = "extract",
                               !.csv = fetchSheetData(sheetUrl, response).text]})
    /\ alert' = "none"
    /\ UNCHANGED <<variant, sheet, result, viewLog, syncStatus, isAnalyzing, isSyncing, appends,
                   timers, isSaving, recentLogs, formVars, settings, submitted, added>>

\* the fetch throws (a non-success response, a network failure) or the extractor
\* throws: catch, then finally
SyncFail(c) ==
    /\ result' = resultAfterError(result)
    /\ viewLog' = viewLog
    /\ syncStatus' = "error"
    /\ finishCycle(c)
    /\ alert' = "none"
    /\ UNCHANGED <<variant, sheet, appends, timers, isSaving, recentLogs, formVars,
                   settings, submitted, added>>

\* the extractor answers: publish, then finally
ExtractOk(c) ==
    /\ c.pc = "extract"
    /\ \E data \in extractorAnswers(variant, c.csv) : result' = published(result, data)
    /\ viewLog' = c.csv
    /\ syncStatus' = "connected"
    /\ finishCycle(c)
    /\ alert' = "none"
    /\ UNCHANGED <<variant, sheet, appends, timers, isSaving, recentLogs, formVars,
                   settings, submitted, added>>

----------------------------------------------------------------------------
(* The append path *)

HttpUrls == {"https://script.example/exec"}
ScriptUrls == {"", "script.example/exec"} \cup HttpUrls

\* scriptUrl.startsWith('http')
startsWithHttp(u) == u \in HttpUrls

\* the location check of appendEntriesToSheet / sendToAppsScript
urlAccepted(v, u) == IF v = APP THEN u # "" /\ startsWithHttp(u) ELSE u # ""

\* the buffer has no counterpart in part_001
hasRecentLogs == variant \in {APP, INDEX}
\* appendEntriesToSheet arms an abort timer; sendToAppsScript does not
hasAbortTimer == variant \in {APP, INDEX}

\* the call is still pending: where an abort timer is armed, it is not yet due
pending(a) == hasAbortTimer => a.elapsed < AppendTimeoutMs

\* a resync scheduled without delay
resyncDelayNone(v) == 0

\* the delay handleAddEntry / handleSave gives setTimeout
resyncDelay(v) == IF v = PART001 THEN ResyncDelayMsPart001 ELSE ResyncDelayMs

\* how many earlier records the buffer keeps when a new one is pushed
RecentKeep == 9

min(a, b) == IF a <= b THEN a ELSE b

\* a slice that keeps one record too many
pushRecentWide(prev, entry) == <<entry>> \o SubSeq(prev, 1, min(RecentKeep + 1, Len(prev)))

\* prev => [entry, ...prev.slice(0, 9)]
pushRecent(prev, entry) == <<entry>> \o SubSeq(prev, 1, min(RecentKeep, Len(prev)))

\* an append that also counts its record into the published view
resultAfterAppendEcho(prev, entry) ==
    IF prev = NULL THEN prev ELSE [prev EXCEPT !.totalAttendanceRecords = @ + 1]

\* what a completed append leaves of the published view
resultAfterAppend(prev, entry) == prev

\* a handler without its early returns
validateNothing(v, entry, saving, url) == "ok"

\* the early returns of handleAddEntry / handleSave: "ok", or why the entry is refused
validate(v, entry, saving, url) ==
    IF v = APP THEN
        IF trim(entry.name) = "" THEN "name required"
        ELSE IF ~(url # "" /\ startsWithHttp(url)) THEN "url required"
        ELSE "ok"
    ELSE IF v = INDEX THEN
        IF trim(entry.name) = "" THEN "name required"
        ELSE IF trim(entry.author) = "" THEN "author required"
        ELSE IF saving THEN "busy"
        ELSE "ok"
    ELSE
        IF trim(entry.name) = "" \/ trim(entry.author) = "" THEN "name and author required"
        ELSE "ok"

ValidationAlerts == {"name required", "url required", "author required",
                     "name and author required", "group required"}
FailureAlerts == {"save failed: timeout", "save failed: transport", "save failed: config"}

\* a card that forgets the placement marker
shouldShowPlacementButtonPlaced(v, m) == m.attendanceCount >= RequiredRounds

\* MemberCard: !isPlaced && member.attendanceCount >= 4
shouldShowPlacementButton(v, m) ==
    /\ IF v = PART001 THEN ~detailsIncludesPlaced(m.details)
                      ELSE getPlacedGroup(m.details) = NO_MATCH
    /\ m.attendanceCount >= RequiredRounds

\* the onOpenPlacement the card is given: App.tsx passes a no-op unless status is TARGET
opensPlacement(v, m) ==
    /\ shouldShowPlacementButton(v, m)
    /\ v = APP => m.status = "TARGET"

\* a || b on strings
orElse(a, b) == IF a = "" THEN b ELSE a

\* the record handleConfirmPlacement (the placement dialog of part_001) builds
placementEntry(v, m, g, form) ==
    [author |-> IF v = APP THEN ABSENT
                ELSE IF v = INDEX THEN orElse(form.author, DEFAULT_PLACEMENT_AUTHOR)
                ELSE form.author,
     name |-> m.name, spouseName |-> m.spouseName, date |-> "today",
     classType |-> PLACEMENT_CLASS, round |-> 0, residence |-> m.region,
     preference |-> IF v = PART001 THEN "" ELSE parseDetail(v, m.details, "pref"),
     notes |-> Tag(g) \o (IF v = PART001 THEN m.details
                          ELSE Plain(parseDetail(v, m.details, "family")))]

\* the edit dialog's form as handleEditClick (App.tsx) and the onEdit of
\* GroupedMemberGrid (index.tsx) fill it for member m; the model types nothing over
\* it, so it stays this function of editingMember while the dialog is open
editFormFor(v, m, form) ==
    [author |-> IF v = APP THEN ABSENT ELSE form.author,
     name |-> m.name,
     spouseName |-> IF v = APP THEN orElse(parseDetail(v, m.details, "spouse"), m.spouseName)
                    ELSE m.spouseName,
     date |-> IF v = APP THEN "today" ELSE "",
     classType |-> IF v = APP THEN EDIT_CLASS ELSE parseDetail(v, m.details, "service"),
     round |-> 0, residence |-> m.region,
     preference |-> parseDetail(v, m.details, "pref"),
     notes |-> Plain(parseDetail(v, m.details, "family"))]

\* an edit record that keeps the round of the entry form
editEntryFormRound(v, m, form) ==
    [editFormFor(v, m, form) EXCEPT !.classType = EDIT_CLASS, !.round = form.round,
                                    !.date = "today"]

\* the record the edit dialog's save button hands to handleAddEntry / handleSave
editEntry(v, m, form) ==
    IF v = APP THEN editFormFor(v, m, form)
    ELSE IF v = INDEX THEN
        [editFormFor(v, m, form) EXCEPT !.author = orElse(form.author, DEFAULT_EDIT_AUTHOR),
                                        !.classType = EDIT_CLASS, !.round = 0,
                                        !.date = "today"]
    ELSE
        [author |-> form.author, name |-> m.name, spouseName |-> m.spouseName,
         date |-> "today", classType |-> EDIT_CLASS, round |-> 0, residence |-> m.region,
         preference |-> "", notes |-> m.details]

\* { ...entry, name: '', spouseName: '', residence: '', preference: '', notes: '' }
cleared(entry) ==
    [entry EXCEPT !.name = "", !.spouseName = "", !.residence = "",
                  !.preference = "", !.notes = <<>>]

noDialog == placingMember = NULL /\ editingMember = NULL

\* handleAddEntry / handleSave up to its await: refuse the entry, fail on the location
\* check, or issue the request
handleAddEntry(entry, isCurrent) ==
    LET verdict == validate(variant, entry, isSaving, scriptUrl) IN
    IF verdict = "busy" THEN
        /\ alert' = "none"
        /\ UNCHANGED <<appends, isSaving, recentLogs, formVars, submitted>>
    ELSE IF verdict # "ok" THEN
        /\ alert' = verdict
        /\ UNCHANGED <<appends, isSaving, recentLogs, formVars, submitted>>
    ELSE
        /\ IF variant = INDEX
              THEN editingMember' = NULL /\ placingMember' = NULL
              ELSE UNCHANGED <<editingMember, placingMember>>
        /\ UNCHANGED <<currentEntry, smallGroupName>>
        /\ IF urlAccepted(variant, scriptUrl) THEN
              /\ submitted < appendLimit
              /\ appends' = appends (+) SetToBag({[entry |-> entry, isCurrent |-> isCurrent,
                                                   url |-> scriptUrl, delivered |-> FALSE,
                                                   elapsed |-> 0]})
              /\ submitted' = submitted + 1
              /\ isSaving' = TRUE
              /\ alert' = "none"
              /\ UNCHANGED recentLogs
           ELSE
              \* the location check throws: catch, then finally run in the microtask
              \* that follows the handler, before any other handler can
              /\ isSaving' = FALSE
              /\ alert' = "save failed: config"
              /\ UNCHANGED <<appends, recentLogs, submitted>>

\* the 'add entry' button of the entry form
AddEntryClick ==
    /\ noDialog
    /\ ~isSaving
    /\ handleAddEntry(currentEntry, TRUE)
    /\ UNCHANGED <<variant, sheet, syncVars, timers, settings, added>>

\* handleConfirmPlacement, and the inline handler of part_001's dialog
confirmPlacement ==
    IF trim(smallGroupName) = "" THEN
        /\ alert' = IF variant = PART001 THEN "none" ELSE "group required"
        /\ UNCHANGED <<appends, isSaving, recentLogs, formVars, submitted>>
    ELSE handleAddEntry(placementEntry(variant, placingMember, smallGroupName, currentEntry),
                        FALSE)

\* the confirm button of the placement dialog
ConfirmPlacementClick ==
    /\ placingMember # NULL
    /\ ~isSaving
    /\ variant # APP => trim(smallGroupName) # ""
    /\ confirmPlacement
    /\ UNCHANGED <<variant, sheet, syncVars, timers, settings, added>>

\* the Enter key in the placement dialog's input
ConfirmPlacementEnter ==
    /\ placingMember # NULL
    /\ confirmPlacement
    /\ UNCHANGED <<variant, sheet, syncVars, timers, settings, added>>

\* the save button of the edit dialog
SaveEditClick ==
    /\ editingMember # NULL
    /\ ~isSaving
    /\ handleAddEntry(editEntry(variant, editingMember, currentEntry), FALSE)
    /\ UNCHANGED <<variant, sheet, syncVars, timers, settings, added>>

\* the append endpoint stores the request's row
AppendDeliver(a) ==
    /\ ~a.delivered
    /\ startsWithHttp(a.url)
    /\ sheet' = Append(sheet, a.entry)
    /\ appends' = (appends (-) SetToBag({a})) (+) SetToBag({[a EXCEPT !.delivered = TRUE]})
    /\ alert' = "none"
    /\ UNCHANGED <<variant, syncVars, timers, isSaving, recentLogs, formVars, settings,
                   submitted, added>>

\* the fetch of the append call resolves: the rest of the try block, then finally
AppendOk(a) ==
    /\ pending(a)
    /\ appends' = appends (-) SetToBag({a})
    /\ recentLogs' = IF hasRecentLogs THEN pushRecent(recentLogs, a.entry) ELSE recentLogs
    /\ added' = IF hasRecentLogs THEN <<a.entry>> \o added ELSE added
    /\ currentEntry' = IF ~a.isCurrent THEN currentEntry
                       ELSE IF variant = INDEX THEN cleared(currentEntry)
                       ELSE cleared(a.entry)
    /\ IF variant = INDEX
          THEN UNCHANGED <<editingMember, placingMember>>
          ELSE editingMember' = NULL /\ placingMember' = NULL
    /\ smallGroupName' = ""
    /\ timers' = timers (+) SetToBag({[delay |-> resyncDelay(variant), elapsed |-> 0]})
    /\ isSaving' = FALSE
    /\ result' = resultAfterAppend(result, a.entry)
    /\ viewLog' = viewLog
    /\ alert' = "none"
    /\ UNCHANGED <<variant, sheet, syncStatus, isAnalyzing, isSyncing, cycles, settings,
                   submitted>>

\* the message the catch block of handleAddEntry shows for an aborted call
abortAlert(v) == IF v = APP THEN "save failed: timeout" ELSE "save failed: transport"

\* a failure path that also arms the resync timer
appendFailedResync(a, msg) ==
    /\ appends' = appends (-) SetToBag({a})
    /\ isSaving' = FALSE
    /\ alert' = msg
    /\ timers' = timers (+) SetToBag({[delay |-> resyncDelay(variant), elapsed |-> 0]})
    /\ UNCHANGED <<variant, sheet, syncVars, recentLogs, formVars, settings, submitted,
                   added>>

\* the catch and finally blocks of handleAddEntry / handleSave
appendFailed(a, msg) ==
    /\ appends' = appends (-) SetToBag({a})
    /\ isSaving' = FALSE
    /\ alert' = msg
    /\ UNCHANGED <<variant, sheet, syncVars, timers, recentLogs, formVars, settings,
                   submitted, added>>

\* the fetch of the append call rejects (a network failure): catch, then finally
AppendFail(a) == pending(a) /\ appendFailed(a, "save failed: transport")

\* the abort timer of appendEntriesToSheet fires: the fetch rejects with AbortError
AppendTimeout(a) ==
    /\ hasAbortTimer
    /\ a.elapsed >= AppendTimeoutMs
    /\ appendFailed(a, abortAlert(variant))

----------------------------------------------------------------------------
(* Time and the delayed resync *)

advance(t, limit) == min(t + TickMs, limit)

tickTimer(t) == [t EXCEPT !.elapsed = advance(t.elapsed, t.delay)]
tickAppend(a) == [a EXCEPT !.elapsed = advance(a.elapsed, AppendTimeoutMs)]

tickOne(x) == IF "delay" \in DOMAIN x THEN tickTimer(x) ELSE tickAppend(x)

\* the bag of running timers (of pending calls) after time has passed for each
RECURSIVE tickAll(_, _)
tickAll(b, todo) ==
    IF todo = {} THEN EmptyBag
    ELSE LET x == CHOOSE y \in todo : TRUE
         IN [e \in {tickOne(x)} |-> CopiesIn(x, b)] (+) tickAll(b, todo \ {x})

\* time passes
Tick ==
    /\ \/ \E t \in BagToSet(timers) : t.elapsed < t.delay
       \/ \E a \in BagToSet(appends) : a.elapsed < AppendTimeoutMs
    /\ timers' = tickAll(timers, BagToSet(timers))
    /\ appends' = tickAll(appends, BagToSet(appends))
    /\ alert' = "none"
    /\ UNCHANGED <<variant, sheet, syncVars, isSaving, recentLogs, formVars, settings,
                   submitted, added>>

\* the callback of setTimeout(..., 2500) / setTimeout(doSync, 2000)
TimerFire(t) ==
    /\ t.elapsed >= t.delay
    /\ BagCardinality(cycles) < MaxCycles
    /\ timers' = timers (-) SetToBag({t})
    /\ startCycle(variant # PART001)
    /\ alert' = IF variant = APP THEN "saved" ELSE "none"
    /\ UNCHANGED <<variant, sheet, result, viewLog, syncStatus, appends, isSaving, recentLogs,
                   formVars, settings, submitted, added>>

----------------------------------------------------------------------------
(* The operator at the form and the dialogs *)

FormNames == {"", KIM}
FormAuthors == {"", AUTHOR}
GroupNames == {"", " ", GROUP}

uiFrame == UNCHANGED <<variant, sheet, syncVars, appends, timers, isSaving, recentLogs,
                       submitted, added>>

\* typing into the name field
TypeName(n) ==
    /\ noDialog
    /\ n # currentEntry.name
    /\ currentEntry' = [currentEntry EXCEPT !.name = n]
    /\ alert' = "none"
    /\ uiFrame
    /\ UNCHANGED <<placingMember, smallGroupName, editingMember, settings>>

FormRounds == {1, 2}

\* the round selector of the entry form
SelectRound(r) ==
    /\ noDialog
    /\ r # currentEntry.round
    /\ currentEntry' = [currentEntry EXCEPT !.round = r]
    /\ alert' = "none"
    /\ uiFrame
    /\ UNCHANGED <<placingMember, smallGroupName, editingMember, settings>>

\* the placement button of a member card
OpenPlacement(m) ==
    /\ noDialog
    /\ opensPlacement(variant, m)
    /\ placingMember' = m
    /\ alert' = "none"
    /\ uiFrame
    /\ UNCHANGED <<currentEntry, smallGroupName, editingMember, settings>>

\* typing into the placement dialog
TypeGroupName(g) ==
    /\ placingMember # NULL
    /\ g # smallGroupName
    /\ smallGroupName' = g
    /\ alert' = "none"
    /\ uiFrame
    /\ UNCHANGED <<currentEntry, placingMember, editingMember, settings>>

\* the cancel button of the placement dialog
CancelPlacement ==
    /\ placingMember # NULL
    /\ placingMember' = NULL
    /\ alert' = "none"
    /\ uiFrame
    /\ UNCHANGED <<currentEntry, smallGroupName, editingMember, settings>>

\* the edit button of a member card
OpenEdit(m) ==
    /\ noDialog
    /\ editingMember' = m
    /\ alert' = "none"
    /\ uiFrame
    /\ UNCHANGED <<currentEntry, placingMember, smallGroupName, settings>>

\* the cancel and close buttons of the edit dialog
CancelEdit ==
    /\ editingMember # NULL
    /\ editingMember' = NULL
    /\ alert' = "none"
    /\ uiFrame
    /\ UNCHANGED <<currentEntry, placingMember, smallGroupName, settings>>

----------------------------------------------------------------------------
(* The specification *)

emptyEntry(v) ==
    [author |-> IF v = APP THEN ABSENT ELSE "", name |-> "", spouseName |-> "",
     date |-> "", classType |-> "", round |-> 0, residence |-> "", preference |-> "",
     notes |-> <<>>]

\* the component has mounted and its effect has started the first cycle
Mounted ==
    /\ sheetUrl \in SheetUrls(variant)
    /\ result = NULL
    /\ viewLog = <<>>
    /\ syncStatus = "none"
    /\ isAnalyzing = (variant \in {APP, INDEX})
    /\ isSyncing = (variant \in {INDEX, PART001})
    /\ cycles = SetToBag({[pc |-> "fetch", csv |-> <<>>, silent |-> FALSE,
                           since |-> Len(sheet), requested |-> hasSheetId(sheetUrl)]})
    /\ appends = EmptyBag
    /\ timers = EmptyBag
    /\ isSaving = FALSE
    /\ recentLogs = <<>>
    /\ \E au \in FormAuthors :
          currentEntry = [emptyEntry(variant) EXCEPT !.date = "today", !.classType = CLASS,
                                                     !.round = 1,
                                                     !.author = IF variant = APP THEN ABSENT
                                                                ELSE au]
    /\ placingMember = NULL
    /\ smallGroupName = ""
    /\ editingMember = NULL
    /\ scriptUrl \in ScriptUrls
    /\ submitted = 0
    /\ added = <<>>
    /\ alert = "none"

Init ==
    /\ variant \in Variants
    /\ sheet \in InitialSheets(variant)
    /\ appendLimit = MaxAppends
    /\ Mounted

Next ==
    \/ ManualSync
    \/ \E c \in BagToSet(cycles) : FetchOk(c) \/ SyncFail(c) \/ ExtractOk(c)
    \/ AddEntryClick
    \/ ConfirmPlacementClick
    \/ ConfirmPlacementEnter
    \/ SaveEditClick
    \/ \E a \in BagToSet(appends) : AppendDeliver(a) \/ AppendOk(a) \/ AppendFail(a)
                                    \/ AppendTimeout(a)
    \/ Tick
    \/ \E t \in BagToSet(timers) : TimerFire(t)
    \/ \E n \in FormNames : TypeName(n)
    \/ \E m \in allMembers(result) : OpenPlacement(m) \/ OpenEdit(m)
    \/ \E g \in GroupNames : TypeGroupName(g)
    \/ CancelPlacement
    \/ CancelEdit

Spec == Init /\ [][Next]_vars

----------------------------------------------------------------------------
(* The recent-activity buffer by itself *)

LogEntries == {[baseRow(1) EXCEPT !.date = "today"], [baseRow(2) EXCEPT !.date = "today"]}

\* setRecentLogs(prev => [entry, ...prev.slice(0, 9)]) applied to one more record
LogPush(e) ==
    /\ hasRecentLogs
    /\ Len(added) < MaxHistory
    /\ recentLogs' = pushRecent(recentLogs, e)
    /\ added' = <<e>> \o added
    /\ UNCHANGED <<variant, sheet, syncVars, appends, timers, isSaving, formVars, settings,
                   submitted, alert>>

NextLogs == \E e \in LogEntries : LogPush(e)

\* a component that keeps the buffer has mounted
InitLogs == Init /\ hasRecentLogs

SpecLogs == InitLogs /\ [][NextLogs]_vars

----------------------------------------------------------------------------
(* Step shapes the properties below speak of *)

\* a resync cycle ends in its catch block
CycleFails ==
    /\ BagCardinality(cycles') < BagCardinality(cycles)
    /\ syncStatus' = "error"

\* a resync cycle ends by publishing
CyclePublishes ==
    /\ BagCardinality(cycles') < BagCardinality(cycles)
    /\ syncStatus' = "connected"

\* a resync cycle starts
CycleStarts == BagCardinality(cycles') > BagCardinality(cycles)

\* an append call is issued
AppendIssued == BagCardinality(appends') > BagCardinality(appends)

\* an append call ends, with or without a failure message
AppendEnds == BagCardinality(appends') < BagCardinality(appends)
AppendSucceeds == AppendEnds /\ alert' \notin FailureAlerts
AppendEndsInFailure == AppendEnds /\ alert' \in FailureAlerts

----------------------------------------------------------------------------
(* Resync cycles *)

\* C1: at most one resync cycle is in flight at any time; a trigger that arrives
\* while a cycle is running starts no second one.
C1_AtMostOneCycleInFlight == BagCardinality(cycles) <= 1

\* C2: the step in which a resync cycle fails leaves the published view exactly as
\* it was (not null, not emptied, not partially replaced) and sets the status to error.
C2_FailedCycleKeepsView ==
    [][CycleFails => result' = result /\ syncStatus' = "error"]_vars

\* a cycle has failed after an earlier one had published
C2_FailedAfterPublish == syncStatus = "error" /\ result # NULL

\* C3: a successful append schedules exactly one resync timer, with the fixed delay
\* (2500 ms in App.tsx and index.tsx, 2000 ms in part_001) and starts no cycle itself;
\* nothing else schedules one; a timer starts its one cycle only once its delay has
\* elapsed, and is gone once it has.
C3_OneDelayedResyncPerAppend ==
    [][/\ AppendSucceeds =>
            /\ timers' = timers (+) SetToBag({[delay |-> IF variant = PART001 THEN 2000
                                                         ELSE 2500,
                                               elapsed |-> 0]})
            /\ cycles' = cycles
       /\ ~AppendSucceeds => BagCardinality(timers') <= BagCardinality(timers)
       /\ BagCardinality(timers') < BagCardinality(timers) =>
            \E t \in BagToSet(timers) :
                /\ t.elapsed >= t.delay
                /\ t.delay > 0
                /\ timers' = timers (-) SetToBag({t})
                /\ BagCardinality(cycles') = BagCardinality(cycles) + 1
       /\ CycleStarts =>
            /\ BagCardinality(cycles') = BagCardinality(cycles) + 1
            /\ \/ BagCardinality(timers') < BagCardinality(timers)
               \/ timers' = timers /\ variant \in {INDEX, PART001}
      ]_vars

\* the delayed resync of a successful append is running and no timer is left
C3_DelayedResyncRunning ==
    /\ timers = EmptyBag
    /\ \E c \in BagToSet(cycles) : c.silent

----------------------------------------------------------------------------
(* Placement *)

\* the calls a step issues
NewAppends == {a \in BagToSet(appends') : CopiesIn(a, appends') > CopiesIn(a, appends)}

isPlacementEntry(e) == e.classType = PLACEMENT_CLASS

\* attendanceCount >= 4 and no placement marker: the member is listed as a target
isTarget(m) ==
    /\ m.attendanceCount >= 4
    /\ ~detailsIncludesPlaced(m.details)
    /\ listOf(m) = "placementTargets"

C5_PlacementRecord ==
    [][AppendIssued /\ placingMember # NULL /\ (\E a \in NewAppends : isPlacementEntry(a.entry)) =>
            /\ BagCardinality(appends') = BagCardinality(appends) + 1
            /\ \A a \in NewAppends :
                /\ a.entry.name = placingMember.name
                /\ a.entry.round = 0
                /\ a.entry.residence = placingMember.region
                /\ a.entry.author \in FormAuthors \ {""}
                /\ a.entry.author = currentEntry.author
                /\ \/ a.entry.notes = Tag(smallGroupName)
                                      \o Plain(parseDetail(variant, placingMember.details,
                                                           "family"))
                   \/ a.entry.notes = Tag(smallGroupName) \o placingMember.details]_vars

----------------------------------------------------------------------------
(* The append call *)

\* the calls a step ends
EndedAppends == {a \in BagToSet(appends) : CopiesIn(a, appends') < CopiesIn(a, appends)}

\* C6: an append call not completed within 15 seconds is aborted and fails with the
\* timeout error, which no other failure produces; a call that completes or fails
\* earlier never produces it.
C6_TimeoutIsDistinct ==
    [][AppendEnds =>
            \A a \in EndedAppends :
                /\ a.elapsed >= 15000 => alert' = "save failed: timeout"
                /\ a.elapsed < 15000 => alert' # "save failed: timeout"]_vars

\* C7: the record is in the recent-activity buffer from the moment its append call
\* is submitted: while the call is in flight, and also after it failed or timed out.
C7_BufferedOnSubmission ==
    [][hasRecentLogs =>
            /\ AppendIssued =>
                  \A a \in NewAppends : \E i \in DOMAIN recentLogs' : recentLogs'[i] = a.entry
            /\ AppendEndsInFailure =>
                  \A a \in EndedAppends : \E i \in DOMAIN recentLogs' : recentLogs'[i] = a.entry
      ]_vars

----------------------------------------------------------------------------
(* The recent-activity buffer and the published view *)

\* C8: after any sequence of pushes the buffer holds at most 10 records, newest
\* first, and they are exactly the (up to) 10 most recently added ones; the 11th
\* push drops the oldest.
C8_BufferIsLastTen ==
    /\ Len(recentLogs) <= 10
    /\ recentLogs = SubSeq(added, 1, IF Len(added) < 10 THEN Len(added) ELSE 10)

\* eleven records were pushed: the first one pushed is gone, the second is the oldest
C8_EleventhDropsOldest ==
    /\ Len(added) = 11
    /\ Len(recentLogs) = 10
    /\ recentLogs[10] = added[10]
    /\ added[11] # added[10]

\* C9: the published view changes only in the step in which a resync cycle succeeds,
\* and then to the extractor's answer to that cycle's request: no step of an
\* append, a placement, an edit or the recent-activity buffer writes to it.
C9_ViewChangesOnlyOnPublish ==
    [][result' # result =>
            /\ CyclePublishes
            /\ recentLogs' = recentLogs
            /\ appends' = appends
            /\ \E c \in BagToSet(cycles) :
                  /\ c.pc = "extract"
                  /\ cycles' = cycles (-) SetToBag({c})
                  /\ result' \in extractorAnswers(variant, c.csv)]_vars

\* an append has completed and its row is in the sheet and in the buffer, while the
\* published view is still the one computed from the log without it
C9_AppendedButViewUntouched ==
    /\ submitted = 1
    /\ appends = EmptyBag
    /\ timers # EmptyBag
    /\ result # NULL
    /\ conformsToSchema(result)
    /\ result.totalAttendanceRecords < Len(sheet)

\* C10: an entry with a blank name (in index.tsx and part_001 also a blank author; for
\* a placement a blank group name) is refused before any network call: no call is
\* issued for it, the saving flag is not set and no resync is scheduled.
C10_IncompleteEntryRefused ==
    [][/\ AppendIssued =>
            \A a \in NewAppends :
                /\ trim(a.entry.name) # ""
                /\ variant # APP => trim(a.entry.author) # ""
                /\ isPlacementEntry(a.entry) => trim(smallGroupName) # ""
       /\ alert' \in ValidationAlerts =>
            UNCHANGED <<appends, isSaving, timers, cycles, sheet, recentLogs, submitted>>
       /\ isSaving' # isSaving =>
            AppendIssued \/ AppendEnds \/ alert' = "save failed: config"
      ]_vars

\* the operator has just been told that a required field is missing; nothing is in flight
C10_RefusalShown ==
    /\ alert \in {"name required", "author required", "name and author required",
                  "group required"}
    /\ appends = EmptyBag
    /\ ~isSaving
    /\ submitted = 0

----------------------------------------------------------------------------
(* The append-endpoint location and retries *)

\* C11: with the append-endpoint location empty or not starting with 'http' the
\* append is blocked with an error: no request is issued for it.
C11_BadLocationBlocks ==
    [][AppendIssued => \A a \in NewAppends : a.url # "" /\ startsWithHttp(a.url)]_vars

\* C12: nothing that failed is retried: the step in which an append fails (timeout,
\* transport or location error) issues no append and schedules no resync, the step in
\* which a resync cycle fails starts no cycle, and no step that ends a call or a
\* cycle issues an append.
C12_NoAutomaticRetry ==
    [][/\ AppendEndsInFailure =>
            /\ BagCardinality(appends') = BagCardinality(appends) - 1
            /\ timers' = timers
            /\ cycles' = cycles
       /\ alert' = "save failed: config" =>
            /\ appends' = appends
            /\ timers' = timers
            /\ cycles' = cycles
       /\ CycleFails =>
            /\ BagCardinality(cycles') = BagCardinality(cycles) - 1
            /\ timers' = timers
            /\ appends' = appends
       /\ AppendIssued => cycles' = cycles /\ timers' = timers /\ alert' = "none"
      ]_vars

\* an append and a resync cycle have both failed, and nothing is in flight or scheduled
C12_FailedAndIdle ==
    /\ alert = "save failed: transport"
    /\ syncStatus = "error"
    /\ submitted = 1
    /\ appends = EmptyBag
    /\ timers = EmptyBag
    /\ cycles = EmptyBag

----------------------------------------------------------------------------
(* The resync scheduler *)

\* a cycle's fetch returns: the cycle moves on to the extractor
CycleMovesOn ==
    \E c \in BagToSet(cycles) :
        /\ c.pc = "fetch"
        /\ \E d \in BagToSet(cycles') :
              /\ d.pc = "extract"
              /\ d.silent = c.silent
              /\ d.since = c.since
              /\ cycles' = (cycles (-) SetToBag({c})) (+) SetToBag({d})

\* C13: a cycle starts fetching with the syncing flag raised, moves on to the
\* extractor, and ends (when the fetch or the extractor throws, or the extractor
\* returns) with the flags lowered and the status set to error or to success; the
\* status and the flags change in no other step, and the status never returns to
\* its initial value.
C13_CycleStateMachine ==
    [][/\ CycleStarts =>
            /\ \E c \in BagToSet(cycles') :
                  c.pc = "fetch" /\ cycles' = cycles (+) SetToBag({c})
            /\ hasSyncing => isSyncing'
            /\ syncStatus' = syncStatus
       /\ cycles' # cycles => CycleStarts \/ CycleMovesOn \/ CycleFails \/ CyclePublishes
       /\ CycleMovesOn => UNCHANGED <<syncStatus, isAnalyzing, isSyncing, result>>
       /\ BagCardinality(cycles') < BagCardinality(cycles) =>
            /\ \E c \in BagToSet(cycles) :
                  /\ cycles' = cycles (-) SetToBag({c})
                  /\ syncStatus' = "connected" => c.pc = "extract"
            /\ syncStatus' \in {"connected", "error"}
            /\ ~isAnalyzing'
            /\ ~isSyncing'
       /\ syncStatus' # syncStatus => BagCardinality(cycles') < BagCardinality(cycles)
       /\ (isAnalyzing /\ ~isAnalyzing') \/ (isSyncing /\ ~isSyncing') =>
            BagCardinality(cycles') < BagCardinality(cycles)
       /\ (~isAnalyzing /\ isAnalyzing') \/ (~isSyncing /\ isSyncing') => CycleStarts
      ]_vars

\* a cycle has run from its fetch to a published view and the scheduler is idle again
C13_CycleDone ==
    /\ cycles = EmptyBag
    /\ syncStatus = "connected"
    /\ result # NULL
    /\ ~isAnalyzing
    /\ ~isSyncing

\* the log as a fetch that saw k rows returned it (rows are only ever appended)
logPrefix(k) == SubSeq(sheet, 1, k)

\* C14: the published view is null (never synced) or the complete answer of one
\* extractor call of one cycle: no state mixes lists or fields of two cycles.
C14_ViewIsOneAnswer ==
    result # NULL =>
        \E k \in 0..Len(sheet) : result \in extractorAnswers(variant, logPrefix(k))

\* a second view has replaced the first: it is the answer for the log with the
\* appended row
C14_ViewReplaced ==
    /\ result # NULL
    /\ conformsToSchema(result)
    /\ result.totalAttendanceRecords = Len(sheet)
    /\ \E i \in DOMAIN sheet : sheet[i].date = "today"

\* C15: rows are only ever appended to the log, and a cycle triggered when the log
\* had n rows fetches a log with at least those n rows and, when it publishes,
\* publishes the view computed from that log (an answer off the response schema
\* aside); this also holds for a cycle triggered while another one is running.
C15_LaterCycleSeesTheRow ==
    /\ [](\A c \in BagToSet(cycles) :
             c.pc = "extract" =>
                 /\ Len(c.csv) >= c.since
                 /\ Len(c.csv) <= Len(sheet)
                 /\ c.csv = logPrefix(Len(c.csv)))
    /\ [][/\ sheet' # sheet =>
               Len(sheet') > Len(sheet) /\ SubSeq(sheet', 1, Len(sheet)) = sheet
          /\ CyclePublishes =>
               \E c \in BagToSet(cycles) :
                   /\ c.pc = "extract"
                   /\ cycles' = cycles (-) SetToBag({c})
                   /\ \/ ~conformsToSchema(result')
                      \/ /\ result' = analyzeSheetData(c.csv)
                         /\ result'.totalAttendanceRecords >= c.since]_vars

\* C16: an extractor answer that does not conform to the response schema is never
\* published: every published view has the four lists and a numeric record count.
C16_NonConformingNeverPublished ==
    result # NULL => conformsToSchema(result)


\* C17: in every published view the rounds listed for a member lie in 1..8 and the
\* member's attendanceCount is the number of distinct rounds listed.
C17_CountIsDistinctRounds ==
    \A m \in allMembers(result) :
        /\ m.attendedRounds \subseteq 1..LastRound
        /\ m.attendanceCount = Cardinality(m.attendedRounds)


\* the lists of the published view that hold a member with this name
listsHolding(n) ==
    {l \in {"placementTargets", "placedMembers", "ongoingMembers", "completedMembers"} :
        \E m \in result[l] : m.name = n}

\* C18: every person of a published view is in exactly one list, the one decided in
\* priority order by the count and the placement marker: 4 or more rounds and no
\* marker is a target (also with 8 or more rounds), 4 or more and a marker is
\* placed, otherwise 8 or more is completed, otherwise ongoing.
C18_CategoryByPriority ==
    \A m \in allMembers(result) :
        LET hasTag == detailsIncludesPlaced(m.details)
            c == m.attendanceCount
        IN listsHolding(m.name) =
              { IF c >= 4 /\ ~hasTag THEN "placementTargets"
                ELSE IF c >= 4 /\ hasTag THEN "placedMembers"
                ELSE IF c >= 8 THEN "completedMembers"
                ELSE "ongoingMembers" }


\* the people for whom some row of the log carries a placement marker
placedInLog(csv) ==
    {trim(csv[i].name) : i \in {j \in DOMAIN csv : detailsIncludesPlaced(csv[j].notes)}}

\* C19: placement is monotonic: a view published from a log in which some row
\* (however many attendance, edit or placement rows follow it) carries a placement
\* marker for a person shows that person as placed, in no other list, and without
\* the placement action (an answer off the response schema aside).
C19_PlacementIsMonotonic ==
    [][CyclePublishes /\ conformsToSchema(result') =>
          \E c \in BagToSet(cycles) :
              /\ c.pc = "extract"
              /\ cycles' = cycles (-) SetToBag({c})
              /\ \A n \in placedInLog(c.csv) :
                    /\ \E m \in result'.placedMembers : m.name = n
                    /\ \A m \in allMembers(result') :
                          m.name = n =>
                              /\ m \in result'.placedMembers
                              /\ detailsIncludesPlaced(m.details)
                              /\ ~shouldShowPlacementButton(variant, m)]_vars


\* C20: aggregation is deterministic: a cycle that read the same raw log as the
\* cycle whose answer is the published view publishes the identical view (answers
\* off the response schema aside).
C20_SameLogSameView ==
    [][CyclePublishes /\ result # NULL /\ conformsToSchema(result)
         /\ conformsToSchema(result') =>
          \A c \in BagToSet(cycles) :
              (c.pc = "extract" /\ cycles' = cycles (-) SetToBag({c}) /\ c.csv = viewLog)
                  => result' = result]_vars


----------------------------------------------------------------------------
(* Logs earlier sessions left: several placement markers for one person, a couple *)

OTHER_GROUP == "G2"

\* the row an earlier placement of Kim into group g left in the sheet
placedRowIn(g) == [placedRow EXCEPT !.notes = Tag(g) \o Plain(NOTE)]

\* Kim placed twice by earlier sessions, in either order of the two groups
MarkerSheets ==
    { [i \in 1..RequiredRounds |-> baseRow(i)] \o <<placedRowIn(gs[1]), placedRowIn(gs[2])>> :
        gs \in {<<GROUP, OTHER_GROUP>>, <<OTHER_GROUP, GROUP>>} }

PARK == "Park"

\* Kim's four rounds, recorded with Park as spouse, and one round of Park, recorded
\* with Kim as spouse and without notes
CoupleSheets ==
    { [i \in 1..RequiredRounds |-> [baseRow(i) EXCEPT !.spouseName = PARK]]
      \o <<[baseRow(1) EXCEPT !.name = PARK, !.spouseName = KIM, !.notes = <<>>]>> }

InitEarlier ==
    /\ variant \in {APP, INDEX}
    /\ sheet \in MarkerSheets \cup CoupleSheets
    /\ appendLimit = MaxAppends
    /\ Mounted

\* the resync cycle and the member cards' edit dialog
NextEarlier ==
    \/ ManualSync
    \/ \E c \in BagToSet(cycles) : FetchOk(c) \/ SyncFail(c) \/ ExtractOk(c)
    \/ \E m \in allMembers(result) : OpenEdit(m)
    \/ CancelEdit

SpecEarlier == InitEarlier /\ [][NextEarlier]_vars

\* the group of the last row of the log that carries a placement marker for n
latestGroup(csv, n) ==
    LET tagged == {i \in DOMAIN csv :
                      trim(csv[i].name) = n /\ getPlacedGroup(csv[i].notes) # NO_MATCH}
    IN IF tagged = {} THEN NO_MATCH ELSE getPlacedGroup(csv[maxOf(tagged)].notes)

\* C21: the placement group a member card reports (getPlacedGroup of the member's
\* details) is the group of the most recently appended marker row of the log the
\* view was computed from, also when the log holds more than one marker for the
\* person (a view off the response schema aside).
C21_LatestMarkerReported ==
    (result # NULL /\ conformsToSchema(result)) =>
        \A m \in allMembers(result) :
            getPlacedGroup(m.details) = latestGroup(viewLog, m.name)


\* the free-text notes of the rows of the log recorded under the name n
ownNotes(csv, n) ==
    {firstLabelled(csv[i].notes, "text", 1) : i \in {j \in DOMAIN csv : trim(csv[j].name) = n}}

\* C22: notes are never merged between partners: every note in a published member's
\* details is a note of a row recorded under that member's own name, also when the
\* log links the member to a spouse (a view off the response schema aside).
C22_NotesFromOwnRows ==
    (result # NULL /\ conformsToSchema(result)) =>
        \A m \in allMembers(result) :
            \A i \in DOMAIN m.details :
                m.details[i].label = "family" => m.details[i].text \in ownNotes(viewLog, m.name)


\* C23: the log is append-only and grows by the row of one pending request at a
\* time; an operator action issues at most one request, with one row; the saving
\* flag is raised only by issuing one; and an edit or placement row carries round 0
\* and the name of the member whose dialog is open.
C23_RowsAreOnlyAppended ==
    [][/\ sheet' # sheet =>
            \E a \in BagToSet(appends) : ~a.delivered /\ sheet' = Append(sheet, a.entry)
       /\ AppendIssued =>
            /\ BagCardinality(appends') = BagCardinality(appends) + 1
            /\ submitted' = submitted + 1
            /\ sheet' = sheet
            /\ \A a \in NewAppends :
                  \/ a.isCurrent /\ a.entry = currentEntry
                  \/ /\ ~a.isCurrent
                     /\ a.entry.round = 0
                     /\ \/ /\ a.entry.classType = EDIT_CLASS
                           /\ editingMember # NULL
                           /\ a.entry.name = editingMember.name
                        \/ /\ a.entry.classType = PLACEMENT_CLASS
                           /\ placingMember # NULL
                           /\ a.entry.name = placingMember.name
       /\ (isSaving' /\ ~isSaving) => AppendIssued]_vars

\* an edit row has reached the log: it is the last row, the rows before it are the
\* log as it was, and it carries round 0 and Kim's name
C23_EditRowAppended ==
    /\ Len(sheet) > RequiredRounds
    /\ sheet[Len(sheet)].classType = EDIT_CLASS
    /\ sheet[Len(sheet)].round = 0
    /\ sheet[Len(sheet)].name = KIM
    /\ SubSeq(sheet, 1, Len(sheet) - 1) \in BaseSheets


\* C24: a fetch hands the resync cycle the text of a successful response or fails:
\* a cycle that reaches the extractor has a location with an id, did make its
\* request, and holds the log as a successful response returned it, never the body
\* of a non-success response; with a location without an id no request is made, and
\* such a cycle can only end in the error state.
C24_FetchTextOrError ==
    /\ [](\A c \in BagToSet(cycles) :
             /\ c.requested = hasSheetId(sheetUrl)
             /\ c.pc = "extract" =>
                   /\ c.requested
                   /\ c.csv # ErrorPage
                   /\ c.csv = logPrefix(Len(c.csv)))
    /\ [][\A c \in BagToSet(cycles) :
             (~c.requested /\ CopiesIn(c, cycles') < CopiesIn(c, cycles)) =>
                 /\ CycleFails
                 /\ result' = result]_vars

\* part_001 runs with a location without an id: its cycle has failed, no view was
\* ever published
C24_NoIdNoRequest ==
    /\ ~hasSheetId(sheetUrl)
    /\ syncStatus = "error"
    /\ cycles = EmptyBag
    /\ result = NULL


\* C25: the published view never regresses: a cycle that publishes has fetched a
\* log at least as long as the log the current view was computed from, so a slow
\* older cycle never overwrites the view of a cycle that fetched after it.
C25_ViewNeverRegresses ==
    [][CyclePublishes =>
          \A c \in BagToSet(cycles) :
              (c.pc = "extract" /\ cycles' = cycles (-) SetToBag({c}))
                  => Len(c.csv) >= Len(viewLog)]_vars


\* the syncing indicator the claim names: isAnalyzing in App.tsx, isSyncing in
\* index.tsx and part_001
syncingIndicator == IF variant = APP THEN isAnalyzing ELSE isSyncing

\* C26: the syncing indicator is true exactly while some resync cycle is in flight.
C26_IndicatorMeansInFlight ==
    syncingIndicator <=> cycles # EmptyBag


----------------------------------------------------------------------------
(* Two append requests: the entry form and the placement dialog, without the edit
   dialog *)

InitDouble ==
    /\ variant \in Variants
    /\ sheet = [i \in 1..RequiredRounds |-> baseRow(i)]
    /\ appendLimit = MaxDoubleAppends
    /\ Mounted

NextDouble ==
    \/ \E c \in BagToSet(cycles) : FetchOk(c) \/ SyncFail(c) \/ ExtractOk(c)
    \/ AddEntryClick
    \/ ConfirmPlacementClick
    \/ ConfirmPlacementEnter
    \/ \E a \in BagToSet(appends) : AppendDeliver(a) \/ AppendOk(a) \/ AppendFail(a)
                                    \/ AppendTimeout(a)
    \/ Tick
    \/ \E t \in BagToSet(timers) : TimerFire(t)
    \/ \E n \in FormNames : TypeName(n)
    \/ \E r \in FormRounds : SelectRound(r)
    \/ \E m \in allMembers(result) : OpenPlacement(m)
    \/ \E g \in GroupNames : TypeGroupName(g)
    \/ CancelPlacement

SpecDouble == InitDouble /\ [][NextDouble]_vars

\* C27: at most one append call is in flight at any time, and a request is issued
\* only while the saving flag is down.
C27_OneAppendInFlight ==
    /\ [](BagCardinality(appends) <= 1)
    /\ [][AppendIssued => ~isSaving]_vars


\* C28: a failed append call leaves everything for a retry: from the step that issues
\* the request to the step in which it fails, the handler changes neither the entry
\* form nor the open dialog nor the typed group name, the failure changes neither the
\* recent-activity buffer nor the published view, and it lowers the saving flag.
C28_FailureLeavesInputForRetry ==
    [][/\ AppendIssued => UNCHANGED formVars
       /\ AppendEndsInFailure =>
            /\ UNCHANGED <<recentLogs, formVars, result>>
            /\ appends' = EmptyBag => ~isSaving']_vars


\* C29: when the append of the entry form's record succeeds, the form keeps the
\* author, date, classType and round it has at that moment (what was typed while the
\* call was in flight included) and its name, spouseName, residence, preference and
\* notes are cleared; when the append of an edit or placement record succeeds, the
\* form is left as it is.
C29_FormAfterSuccess ==
    [][AppendSucceeds =>
          \A a \in BagToSet(appends) :
              CopiesIn(a, appends') < CopiesIn(a, appends) =>
                  IF a.isCurrent
                  THEN currentEntry' = [currentEntry EXCEPT !.name = "", !.spouseName = "",
                                                            !.residence = "", !.preference = "",
                                                            !.notes = <<>>]
                  ELSE currentEntry' = currentEntry]_vars


----------------------------------------------------------------------------
(* Loading an existing member into the entry form (App.tsx) *)

\* the for loop of handleLoadExistingMember from round i on: the first round that
\* attendedRounds does not include, or the initial 1 when the loop runs out
RECURSIVE firstFreeRound(_, _)
firstFreeRound(attended, i) ==
    IF i > LastRound THEN 1
    ELSE IF i \notin attended THEN i
    ELSE firstFreeRound(attended, i + 1)

\* a suggestion that continues after the last attended round
suggestedRoundAfterLast(m) ==
    IF m.attendedRounds = {} THEN 1 ELSE maxOf(m.attendedRounds) + 1

\* let suggestedRound = 1; for (let i = 1; i <= 8; i++) ...
suggestedRound(m) == firstFreeRound(m.attendedRounds, 1)

\* existingMemberInfo.get(currentEntry.name.trim()): the map is filled list by list,
\* a later list's member replacing an earlier one of the same name
currentMatches ==
    LET n == trim(currentEntry.name)
        named(list) == {m \in list : m.name = n}
    IN IF n = "" \/ result = NULL THEN {}
       ELSE IF named(result.completedMembers) # {} THEN named(result.completedMembers)
       ELSE IF named(result.ongoingMembers) # {} THEN named(result.ongoingMembers)
       ELSE IF named(result.placedMembers) # {} THEN named(result.placedMembers)
       ELSE named(result.placementTargets)

\* setCurrentEntry(prev => ({ ...prev, spouseName, residence, preference, round, notes }))
loadedEntry(prev, m) ==
    [prev EXCEPT !.spouseName = orElse(m.spouseName, parseDetail(APP, m.details, "spouse")),
                 !.residence = m.region,
                 !.preference = parseDetail(APP, m.details, "pref"),
                 !.round = suggestedRound(m),
                 !.notes = Plain(parseDetail(APP, m.details, "family"))]

\* the auto-complete button the entry form shows for currentMatch
LoadExistingMember(m) ==
    /\ variant = APP
    /\ noDialog
    /\ m \in currentMatches
    /\ currentEntry' = loadedEntry(currentEntry, m)
    /\ alert' = "none"
    /\ uiFrame
    /\ UNCHANGED <<placingMember, smallGroupName, editingMember, settings>>

\* Kim's rounds first, first + step, ... (n rows), recorded with the spouse given
roundsLog(first, step, n, spouse) ==
    [i \in 1..n |-> [baseRow(first + step * (i - 1)) EXCEPT !.spouseName = spouse]]

\* logs with the first rounds attended, with a gap, with round 1 missed, and with
\* all eight rounds
LoadSheets ==
    {roundsLog(1, 1, RequiredRounds - 1, ""), roundsLog(1, 2, 2, PARK),
     roundsLog(2, 1, 2, ""), roundsLog(1, 1, LastRound, PARK)}

InitLoad ==
    /\ variant = APP
    /\ sheet \in LoadSheets
    /\ appendLimit = MaxAppends
    /\ Mounted

\* the first cycle and the entry form (App.tsx has no refresh button)
NextLoad ==
    \/ \E c \in BagToSet(cycles) : FetchOk(c) \/ SyncFail(c) \/ ExtractOk(c)
    \/ \E n \in FormNames : TypeName(n)
    \/ \E r \in FormRounds : SelectRound(r)
    \/ \E m \in allMembers(result) : LoadExistingMember(m)

SpecLoad == InitLoad /\ [][NextLoad]_vars

\* the rounds 1..8 the member has not attended
freeRounds(m) == (1..LastRound) \ m.attendedRounds

\* C30: loading an existing member into the entry form sets the form's round to the
\* smallest round of 1..8 the member has not attended, and to 1 when the member has
\* attended all eight; it copies the member's spouse, region, preference and notes
\* into the form and leaves name, date and classType as they are.
C30_LoadSuggestsFirstFreeRound ==
    [][\A m \in allMembers(result) :
          LoadExistingMember(m) =>
              /\ currentEntry'.round =
                     IF freeRounds(m) = {} THEN 1
                     ELSE CHOOSE r \in freeRounds(m) : \A q \in freeRounds(m) : r <= q
              /\ currentEntry'.spouseName \in {m.spouseName, parseDetail(APP, m.details, "spouse")}
              /\ m.spouseName # "" => currentEntry'.spouseName = m.spouseName
              /\ currentEntry'.residence = m.region
              /\ currentEntry'.preference = parseDetail(APP, m.details, "pref")
              /\ currentEntry'.notes = Plain(parseDetail(APP, m.details, "family"))
              /\ currentEntry'.name = currentEntry.name
              /\ currentEntry'.date = currentEntry.date
              /\ currentEntry'.classType = currentEntry.classType]_vars

\* a member with all eight rounds attended has been loaded over a form that had
\* round 2 selected or not: the form holds the member's region, spouse and notes, and round 1
C30_AllEightLoaded ==
    \E m \in allMembers(result) :
        /\ m.attendedRounds = 1..LastRound
        /\ currentEntry.name = m.name
        /\ currentEntry.residence = m.region /\ m.region # ""
        /\ currentEntry.spouseName = PARK
        /\ currentEntry.notes = Plain(NOTE)
        /\ currentEntry.round = 1

============================================================================
